---- MODULE Spec2Model ----
(***************************************************************************)
(* jsonrpc-lite: classification of JSON documents into JSON-RPC 2.0        *)
(* messages (Request, Notification, Success, Error), the version check and *)
(* the batch rules.  The library is a set of pure functions; the state is  *)
(* the text handed to a from_* operation and the value that came back, or  *)
(* the message a constructor built and what it serializes to.              *)
(*                                                                         *)
(* JSON text is a sequence of tokens, a JSON value is a tagged record.     *)
(* serde_json (text <-> Value) and serde's derived Deserialize/Serialize   *)
(* are modelled by what they do on these.                                  *)
(***************************************************************************)
EXTENDS Integers, Sequences, FiniteSets, TLC

VARIABLES input, op, ret, retv, call, err, rpc, wire

vars == <<input, op, ret, retv, call, err, rpc, wire>>

(***************************************************************************)
(* serde_json::Value                                                       *)
(***************************************************************************)

\* Magnitudes are five limbs, base 2^16, most significant first, so that
\* the 64-bit boundaries are exact.
Limbs(a, b, c, d, e) == <<a, b, c, d, e>>

Small(n) == Limbs(0, 0, 0, 0, n)

I64_MAX == Limbs(0, 32767, 65535, 65535, 65535)

I64_MIN_MAG == Limbs(0, 32768, 0, 0, 0)

U64_MAX == Limbs(0, 65535, 65535, 65535, 65535)

RECURSIVE LimbLE(_, _)
\* a <= b, lexicographically on the limbs
LimbLE(a, b) ==
    IF Len(a) = 0 THEN TRUE
    ELSE IF Head(a) < Head(b) THEN TRUE
    ELSE IF Head(a) > Head(b) THEN FALSE
    ELSE LimbLE(Tail(a), Tail(b))

Null == [k |-> "null"]

Bool(b) == [k |-> "bool", b |-> b]

Str(s) == [k |-> "str", s |-> s]

\* serde_json::Number: N::PosInt(u64) | N::NegInt(i64) | N::Float(f64).
\* half: the value has the fractional part .5
Num(rep, neg, mag, half) ==
    [k |-> "num", rep |-> rep, neg |-> neg, mag |-> mag, half |-> half]

PosInt(n) == Num("PosInt", FALSE, Small(n), FALSE)

NegInt(n) == Num("NegInt", TRUE, Small(n), FALSE)

Arr(a) == [k |-> "arr", a |-> a]

Obj(o) == [k |-> "obj", o |-> o]

\* Map::new()
EmptyMap == [x \in {} |-> Null]

\* The keys the model's documents use, in the order of String's Ord, which
\* is the order serde_json's Map iterates in.
KeyOrder ==
    <<"a", "b", "code", "data", "error", "foo", "id", "jsonrpc",
      "message", "method", "params", "result">>

\* the place of a key in that order
Rank(key) == CHOOSE n \in 1..Len(KeyOrder) : KeyOrder[n] = key

\* a map kept as a sorted vector that only takes a key at its end: an entry
\* whose key sorts before one already there is lost
Insert_at_end_only(o, key, v) ==
    IF \A x \in DOMAIN o : Rank(x) <= Rank(key) THEN (key :> v) @@ o ELSE o

\* Map::insert: a later insert of the same key replaces the entry
Insert(o, key, v) == (key :> v) @@ o

SortedKeys(o) == SelectSeq(KeyOrder, LAMBDA key : key \in DOMAIN o)

(***************************************************************************)
(* JSON text: tokens                                                       *)
(***************************************************************************)

P(c) == [k |-> c]

\* a number literal: form "int" (digits only), "frac" (digits.5) or "exp"
\* (mantissa and exponent, how a float without fractional part prints)
Lit(neg, mag, form) == [k |-> "lit", neg |-> neg, mag |-> mag, form |-> form]

\* something the lexer rejects: an unterminated string, a bare word
Bad == [k |-> "bad"]

\* serde_json's number parsing: a literal with a fraction or an exponent is
\* a float; digits alone are a u64 or a negative i64 when they fit, a float
\* when they do not.
NumberOfLit(t) ==
    IF t.form = "frac" THEN Num("Float", t.neg, t.mag, TRUE)
    ELSE IF t.form = "exp" THEN Num("Float", t.neg, t.mag, FALSE)
    ELSE IF ~t.neg
        THEN IF LimbLE(t.mag, U64_MAX)
             THEN Num("PosInt", FALSE, t.mag, FALSE)
             ELSE Num("Float", FALSE, t.mag, FALSE)
    ELSE IF t.mag = Small(0) THEN Num("Float", TRUE, t.mag, FALSE)
    ELSE IF LimbLE(t.mag, I64_MIN_MAG)
        THEN Num("NegInt", TRUE, t.mag, FALSE)
        ELSE Num("Float", TRUE, t.mag, FALSE)

\* how serde_json prints a Number
LitOfNumber(v) ==
    IF v.rep = "Float"
    THEN Lit(v.neg, v.mag, IF v.half THEN "frac" ELSE "exp")
    ELSE Lit(v.neg, v.mag, "int")

POk(v, next) == [ok |-> TRUE, v |-> v, next |-> next]

PFail == [ok |-> FALSE, v |-> Null, next |-> 0]

RECURSIVE ParseValue(_, _)
RECURSIVE ParseElems(_, _, _)
RECURSIVE ParseMembers(_, _, _)

\* one JSON value starting at token i
ParseValue(t, i) ==
    IF i > Len(t) THEN PFail
    ELSE LET tok == t[i] IN
         CASE tok.k = "null" -> POk(Null, i + 1)
           [] tok.k = "bool" -> POk(Bool(tok.b), i + 1)
           [] tok.k = "str"  -> POk(Str(tok.s), i + 1)
           [] tok.k = "lit"  -> POk(NumberOfLit(tok), i + 1)
           [] tok.k = "["    ->
                IF i + 1 <= Len(t) /\ t[i + 1].k = "]"
                THEN POk(Arr(<<>>), i + 2)
                ELSE ParseElems(t, i + 1, <<>>)
           [] tok.k = "{"    ->
                IF i + 1 <= Len(t) /\ t[i + 1].k = "}"
                THEN POk(Obj(EmptyMap), i + 2)
                ELSE ParseMembers(t, i + 1, EmptyMap)
           [] OTHER -> PFail

\* the elements of an array after "[" or ","
ParseElems(t, i, acc) ==
    LET e == ParseValue(t, i) IN
    IF ~e.ok \/ e.next > Len(t) THEN PFail
    ELSE IF t[e.next].k = "," THEN ParseElems(t, e.next + 1, Append(acc, e.v))
    ELSE IF t[e.next].k = "]" THEN POk(Arr(Append(acc, e.v)), e.next + 1)
    ELSE PFail

\* the members of an object after "{" or ","
ParseMembers(t, i, acc) ==
    IF i + 1 > Len(t) \/ t[i].k # "str" \/ t[i + 1].k # ":" THEN PFail
    ELSE LET e == ParseValue(t, i + 2) IN
         IF ~e.ok \/ e.next > Len(t) THEN PFail
         ELSE IF t[e.next].k = ","
              THEN ParseMembers(t, e.next + 1, Insert(acc, t[i].s, e.v))
         ELSE IF t[e.next].k = "}"
              THEN POk(Obj(Insert(acc, t[i].s, e.v)), e.next + 1)
         ELSE PFail

SOk(v) == [ok |-> TRUE, v |-> v]

SErr == [ok |-> FALSE, v |-> Null]

\* serde_json::from_str::<Value>: one value, then the end of the text
from_str_Value(t) ==
    LET r == ParseValue(t, 1) IN
    IF r.ok /\ r.next = Len(t) + 1 THEN SOk(r.v) ELSE SErr

\* serde_json::from_str::<Vec<Value>>: the text must be a JSON array
from_str_Vec(t) ==
    LET r == from_str_Value(t) IN
    IF r.ok /\ r.v.k = "arr" THEN [ok |-> TRUE, v |-> r.v.a]
    ELSE [ok |-> FALSE, v |-> <<>>]

RECURSIVE Flatten(_)
Flatten(ss) == IF ss = <<>> THEN <<>> ELSE Head(ss) \o Flatten(Tail(ss))

\* the parts separated by commas
Commas(parts) ==
    Flatten([i \in 1..Len(parts) |->
        IF i = 1 THEN parts[i] ELSE <<P(",")>> \o parts[i]])

RECURSIVE ToTokens(_)
\* serde_json::to_string of a Value
ToTokens(v) ==
    CASE v.k = "null" -> <<Null>>
      [] v.k = "bool" -> <<v>>
      [] v.k = "str"  -> <<v>>
      [] v.k = "num"  -> <<LitOfNumber(v)>>
      [] v.k = "arr"  ->
           <<P("[")>> \o Commas([i \in 1..Len(v.a) |-> ToTokens(v.a[i])])
                      \o <<P("]")>>
      [] v.k = "obj"  ->
           LET ks == SortedKeys(v.o) IN
           <<P("{")>>
             \o Commas([i \in 1..Len(ks) |->
                    <<Str(ks[i]), P(":")>> \o ToTokens(v.o[ks[i]])])
             \o <<P("}")>>

(***************************************************************************)
(* Id, Params, RpcError and the four message records                       *)
(***************************************************************************)

IdNum(neg, mag) == [t |-> "Num", neg |-> neg, mag |-> mag]

IdStr(s) == [t |-> "Str", s |-> s]

IdNone == [t |-> "None"]

ParamsArray(a) == [t |-> "Array", a |-> a]

ParamsMap(o) == [t |-> "Map", o |-> o]

ParamsNone == [t |-> "None"]

\* Option<T>
None == [some |-> FALSE]

Some(x) == [some |-> TRUE, x |-> x]

V2 == "2.0"

DOk(v) == [ok |-> TRUE, v |-> v]

DErr == [ok |-> FALSE]

\* String from a buffered value: a JSON string and nothing else
De_String(v) == IF v.k = "str" THEN DOk(v.s) ELSE DErr

\* an i64 that takes a u64 beyond its range as i64::MAX
De_i64_saturating(v) ==
    IF v.k # "num" THEN DErr
    ELSE IF v.rep = "NegInt" THEN DOk([neg |-> TRUE, mag |-> v.mag])
    ELSE IF v.rep = "PosInt"
        THEN DOk([neg |-> FALSE,
                  mag |-> IF LimbLE(v.mag, I64_MAX) THEN v.mag ELSE I64_MAX])
    ELSE DErr

\* i64 from a buffered value: visit_i64, or visit_u64 when the value fits;
\* a float is an invalid type
De_i64(v) ==
    IF v.k # "num" THEN DErr
    ELSE IF v.rep = "NegInt" THEN DOk([neg |-> TRUE, mag |-> v.mag])
    ELSE IF v.rep = "PosInt" /\ LimbLE(v.mag, I64_MAX)
        THEN DOk([neg |-> FALSE, mag |-> v.mag])
    ELSE DErr

\* Value from a buffered value
De_Value(v) == DOk(v)

\* an Id that takes the string "1" for the number 1
De_Id_numeric_strings(v) ==
    LET n == De_i64(v)
        s == De_String(v)
    IN  IF n.ok THEN DOk(IdNum(n.v.neg, n.v.mag))
        ELSE IF s.ok THEN IF s.v = "1" THEN DOk(IdNum(FALSE, Small(1)))
                          ELSE DOk(IdStr(s.v))
        ELSE IF v.k = "null" THEN DOk(IdNone)
        ELSE DErr

\* Id, untagged: Num(i64), then Str(String), then the unit variant None
De_Id(v) ==
    LET n == De_i64(v)
        s == De_String(v)
    IN  IF n.ok THEN DOk(IdNum(n.v.neg, n.v.mag))
        ELSE IF s.ok THEN DOk(IdStr(s.v))
        ELSE IF v.k = "null" THEN DOk(IdNone)
        ELSE DErr

\* Params, untagged: Array(Vec<Value>), then Map, then the unit variant None
De_Params(v) ==
    IF v.k = "arr" THEN DOk(ParamsArray(v.a))
    ELSE IF v.k = "obj" THEN DOk(ParamsMap(v.o))
    ELSE IF v.k = "null" THEN DOk(ParamsNone)
    ELSE DErr

\* Option<Params>: null is None, anything else must be a Params
De_OptionParams(v) ==
    IF v.k = "null" THEN DOk(None)
    ELSE LET p == De_Params(v) IN IF p.ok THEN DOk(Some(p.v)) ELSE DErr

\* Option<Value>: null is None
De_OptionValue(v) == IF v.k = "null" THEN DOk(None) ELSE DOk(Some(v))

\* A derived struct reads an object by field name (a missing field is an
\* error unless it has a default, an unknown key is skipped) and an array
\* by position (too few elements for the fields without default, or any
\* element left over, is an error).
\* the value for field number i named key, when the document supplies it
Supplied(v, key, i) ==
    IF v.k = "obj" THEN key \in DOMAIN v.o ELSE i <= Len(v.a)

Field(v, key, i) == IF v.k = "obj" THEN v.o[key] ELSE v.a[i]

\* n fields, of which the first `need` positions must be there in an array
StructShape(v, need, n) ==
    \/ v.k = "obj"
    \/ v.k = "arr" /\ Len(v.a) >= need /\ Len(v.a) <= n

RpcErrorRec(code, message, data) ==
    [code |-> code, message |-> message, data |-> data]

\* RpcError {code: i64, message: String, #[serde(default)] data: Option<Value>}
De_RpcError(v) ==
    IF ~StructShape(v, 2, 3) THEN DErr
    ELSE IF ~Supplied(v, "code", 1) \/ ~Supplied(v, "message", 2) THEN DErr
    ELSE LET c == De_i64(Field(v, "code", 1))
             m == De_String(Field(v, "message", 2))
             d == IF Supplied(v, "data", 3)
                  THEN De_OptionValue(Field(v, "data", 3))
                  ELSE DOk(None)
         IN  IF c.ok /\ m.ok /\ d.ok
             THEN DOk(RpcErrorRec(c.v, m.v, d.v))
             ELSE DErr

\* a jsonrpc field with #[serde(default)]: a missing key reads as ""
De_jsonrpc_defaulted(v) ==
    IF Supplied(v, "jsonrpc", 1) THEN De_String(Field(v, "jsonrpc", 1))
    ELSE DOk("")

\* jsonrpc: String, the first field of each of the four records: required
De_jsonrpc(v) ==
    IF Supplied(v, "jsonrpc", 1) THEN De_String(Field(v, "jsonrpc", 1))
    ELSE DErr

RequestRec(jsonrpc, method, params, id) ==
    [kind |-> "Request", jsonrpc |-> jsonrpc, method |-> method,
     params |-> params, id |-> id]

NotificationRec(jsonrpc, method, params) ==
    [kind |-> "Notification", jsonrpc |-> jsonrpc, method |-> method,
     params |-> params]

SuccessRec(jsonrpc, result, id) ==
    [kind |-> "Success", jsonrpc |-> jsonrpc, result |-> result, id |-> id]

ErrorRec(jsonrpc, error, id) ==
    [kind |-> "Error", jsonrpc |-> jsonrpc, error |-> error, id |-> id]

\* Request {jsonrpc, method, #[serde(default)] params, id}
De_Request(v) ==
    IF ~StructShape(v, 4, 4) THEN DErr
    ELSE IF ~Supplied(v, "method", 2) \/ ~Supplied(v, "id", 4) THEN DErr
    ELSE LET j == De_jsonrpc(v)
             m == De_String(Field(v, "method", 2))
             p == IF Supplied(v, "params", 3)
                  THEN De_OptionParams(Field(v, "params", 3))
                  ELSE DOk(None)
             i == De_Id(Field(v, "id", 4))
         IN  IF j.ok /\ m.ok /\ p.ok /\ i.ok
             THEN DOk(RequestRec(j.v, m.v, p.v, i.v))
             ELSE DErr

\* a Notification with #[serde(deny_unknown_fields)]
De_Notification_denies_unknown(v) ==
    IF ~StructShape(v, 2, 3) THEN DErr
    ELSE IF v.k = "obj" /\ ~(DOMAIN v.o \subseteq {"jsonrpc", "method", "params"})
        THEN DErr
    ELSE IF ~Supplied(v, "method", 2) THEN DErr
    ELSE LET j == De_jsonrpc(v)
             m == De_String(Field(v, "method", 2))
             p == IF Supplied(v, "params", 3)
                  THEN De_OptionParams(Field(v, "params", 3))
                  ELSE DOk(None)
         IN  IF j.ok /\ m.ok /\ p.ok
             THEN DOk(NotificationRec(j.v, m.v, p.v))
             ELSE DErr

\* Notification {jsonrpc, method, #[serde(default)] params}
De_Notification(v) ==
    IF ~StructShape(v, 2, 3) THEN DErr
    ELSE IF ~Supplied(v, "method", 2) THEN DErr
    ELSE LET j == De_jsonrpc(v)
             m == De_String(Field(v, "method", 2))
             p == IF Supplied(v, "params", 3)
                  THEN De_OptionParams(Field(v, "params", 3))
                  ELSE DOk(None)
         IN  IF j.ok /\ m.ok /\ p.ok
             THEN DOk(NotificationRec(j.v, m.v, p.v))
             ELSE DErr

\* Success with result: Option<Value>, where null reads as a missing result
De_Success_null_is_missing(v) ==
    IF ~StructShape(v, 3, 3) THEN DErr
    ELSE IF ~Supplied(v, "result", 2) \/ ~Supplied(v, "id", 3) THEN DErr
    ELSE LET j == De_jsonrpc(v)
             r == De_Value(Field(v, "result", 2))
             i == De_Id(Field(v, "id", 3))
         IN  IF j.ok /\ r.ok /\ r.v # Null /\ i.ok
             THEN DOk(SuccessRec(j.v, r.v, i.v))
             ELSE DErr

\* Success {jsonrpc, result, id}
De_Success(v) ==
    IF ~StructShape(v, 3, 3) THEN DErr
    ELSE IF ~Supplied(v, "result", 2) \/ ~Supplied(v, "id", 3) THEN DErr
    ELSE LET j == De_jsonrpc(v)
             r == De_Value(Field(v, "result", 2))
             i == De_Id(Field(v, "id", 3))
         IN  IF j.ok /\ r.ok /\ i.ok
             THEN DOk(SuccessRec(j.v, r.v, i.v))
             ELSE DErr

\* Error {jsonrpc, error, id}
De_Error(v) ==
    IF ~StructShape(v, 3, 3) THEN DErr
    ELSE IF ~Supplied(v, "error", 2) \/ ~Supplied(v, "id", 3) THEN DErr
    ELSE LET j == De_jsonrpc(v)
             e == De_RpcError(Field(v, "error", 2))
             i == De_Id(Field(v, "id", 3))
         IN  IF j.ok /\ e.ok /\ i.ok
             THEN DOk(ErrorRec(j.v, e.v, i.v))
             ELSE DErr

\* the variants declared with Error ahead of Success
from_value_error_first(v) ==
    LET rq == De_Request(v)
        nt == De_Notification(v)
        su == De_Success(v)
        er == De_Error(v)
    IN  IF rq.ok THEN rq
        ELSE IF nt.ok THEN nt
        ELSE IF er.ok THEN er
        ELSE IF su.ok THEN su
        ELSE DErr

\* the variants declared with Notification ahead of Request
from_value_notification_first(v) ==
    LET rq == De_Request(v)
        nt == De_Notification(v)
        su == De_Success(v)
        er == De_Error(v)
    IN  IF nt.ok THEN nt
        ELSE IF rq.ok THEN rq
        ELSE IF su.ok THEN su
        ELSE IF er.ok THEN er
        ELSE DErr

\* JsonRpc, untagged: the first of Request, Notification, Success, Error
\* that the buffered value deserializes into
from_value(v) ==
    LET rq == De_Request(v)
        nt == De_Notification(v)
        su == De_Success(v)
        er == De_Error(v)
    IN  IF rq.ok THEN rq
        ELSE IF nt.ok THEN nt
        ELSE IF su.ok THEN su
        ELSE IF er.ok THEN er
        ELSE DErr

(***************************************************************************)
(* RpcError and JsonRpc constructors                                       *)
(***************************************************************************)

\* an i64 of small magnitude
I64(n) == [neg |-> n < 0, mag |-> Small(IF n < 0 THEN 0 - n ELSE n)]

\* enum ErrorCode: five unit variants and ServerError(i64)
ParseError == [c |-> "ParseError"]

InvalidRequest == [c |-> "InvalidRequest"]

MethodNotFound == [c |-> "MethodNotFound"]

InvalidParams == [c |-> "InvalidParams"]

InternalError == [c |-> "InternalError"]

ServerError(code) == [c |-> "ServerError", code |-> code]

\* ErrorCode::code
ErrorCode_code(c) ==
    CASE c.c = "ParseError"     -> I64(-32700)
      [] c.c = "InvalidRequest" -> I64(-32600)
      [] c.c = "MethodNotFound" -> I64(-32601)
      [] c.c = "InvalidParams"  -> I64(-32602)
      [] c.c = "InternalError"  -> I64(-32603)
      [] c.c = "ServerError"    -> c.code

\* ErrorCode::as_str
ErrorCode_as_str(c) ==
    CASE c.c = "ParseError"     -> "Parse error"
      [] c.c = "InvalidRequest" -> "Invalid request"
      [] c.c = "MethodNotFound" -> "Method not found"
      [] c.c = "InvalidParams"  -> "Invalid params"
      [] c.c = "InternalError"  -> "Internal error"
      [] c.c = "ServerError"    -> "Server error"

\* RpcError::custom
RpcError_custom(code, msg) == RpcErrorRec(code, msg, None)

\* RpcError::new; to_string is Display, which writes as_str
RpcError_new(c) == RpcError_custom(ErrorCode_code(c), ErrorCode_as_str(c))

RpcError_parse_error == RpcError_new(ParseError)

RpcError_invalid_request == RpcError_new(InvalidRequest)

RpcError_method_not_found == RpcError_new(MethodNotFound)

RpcError_invalid_params == RpcError_new(InvalidParams)

RpcError_internal_error == RpcError_new(InternalError)

\* a server_error that takes only the codes -32099..-32000 and answers
\* any other with the internal error
RpcError_server_error_range_checked(code) ==
    IF code.neg /\ \E n \in 32000..32099 : code.mag = Small(n)
    THEN RpcError_new(ServerError(code))
    ELSE RpcError_internal_error

\* RpcError::server_error
RpcError_server_error(code) == RpcError_new(ServerError(code))

\* a with_data that attaches data only where there was none
RpcError_with_data_keeps_earlier(self, data) ==
    IF self.data.some THEN self ELSE [self EXCEPT !.data = data]

\* RpcError::with_data, data already converted into Option<Value>
RpcError_with_data(self, data) == [self EXCEPT !.data = data]

\* Id::from(i64)
Id_from_i64(val) == IdNum(val.neg, val.mag)

\* Id::from(String), Id::from(&str)
Id_from_String(val) == IdStr(val)

\* Id::from(())
Id_from_unit == IdNone

\* a conversion that wraps a scalar into a list of one
Params_from_Value_wraps_scalars(val) ==
    CASE val.k = "arr" -> ParamsArray(val.a)
      [] val.k = "obj" -> ParamsMap(val.o)
      [] OTHER         -> ParamsArray(<<val>>)

\* Params::from(Value)
Params_from_Value(val) ==
    CASE val.k = "arr" -> ParamsArray(val.a)
      [] val.k = "obj" -> ParamsMap(val.o)
      [] OTHER         -> ParamsNone

\* Params::from(Vec<T>), each T already a Value
Params_from_Vec(val) == ParamsArray(val)

\* Params::from(Map<String, Value>)
Params_from_Map(val) == ParamsMap(val)

\* Params::from(())
Params_from_unit == ParamsNone

\* an argument of a generic parameter, tagged with its Rust type
Arg_i64(n) == [ty |-> "i64", n |-> n]

Arg_String(s) == [ty |-> "String", s |-> s]

Arg_Value(v) == [ty |-> "Value", v |-> v]

Arg_Vec(a) == [ty |-> "Vec", a |-> a]

Arg_Map(o) == [ty |-> "Map", o |-> o]

Unit == [ty |-> "()"]

\* <I: Into<Id>>
Into_Id(arg) ==
    CASE arg.ty = "i64"    -> Id_from_i64(arg.n)
      [] arg.ty = "String" -> Id_from_String(arg.s)
      [] arg.ty = "()"     -> Id_from_unit

\* <P: Into<Params>>
Into_Params(arg) ==
    CASE arg.ty = "Value" -> Params_from_Value(arg.v)
      [] arg.ty = "Vec"   -> Params_from_Vec(arg.a)
      [] arg.ty = "Map"   -> Params_from_Map(arg.o)
      [] arg.ty = "()"    -> Params_from_unit

\* JsonRpc::request
JsonRpc_request(id, method) == RequestRec(V2, method, None, Into_Id(id))

\* JsonRpc::request_with_params
JsonRpc_request_with_params(id, method, params) ==
    RequestRec(V2, method, Some(Into_Params(params)), Into_Id(id))

\* JsonRpc::notification
JsonRpc_notification(method) == NotificationRec(V2, method, None)

\* JsonRpc::notification_with_params
JsonRpc_notification_with_params(method, params) ==
    NotificationRec(V2, method, Some(Into_Params(params)))

\* JsonRpc::success
JsonRpc_success(id, result) == SuccessRec(V2, result, Into_Id(id))

\* JsonRpc::error
JsonRpc_error(id, error) == ErrorRec(V2, error, Into_Id(id))

\* JsonRpc::parse_error
JsonRpc_parse_error(id) == JsonRpc_error(id, RpcError_parse_error)

\* JsonRpc::invalid_request_error
JsonRpc_invalid_request_error(id) == JsonRpc_error(id, RpcError_invalid_request)

\* JsonRpc::method_not_found_error
JsonRpc_method_not_found_error(id) ==
    JsonRpc_error(id, RpcError_method_not_found)

\* JsonRpc::invalid_params_error
JsonRpc_invalid_params_error(id) == JsonRpc_error(id, RpcError_invalid_params)

\* JsonRpc::internal_error
JsonRpc_internal_error(id) == JsonRpc_error(id, RpcError_internal_error)

\* JsonRpc::server_error
JsonRpc_server_error(id, code) == JsonRpc_error(id, RpcError_server_error(code))

\* a get_id that reports the absent Id as no id at all
get_id_hides_absent(m) ==
    IF m.kind \in {"Request", "Success", "Error"} /\ m.id # IdNone
    THEN Some(m.id) ELSE None

\* JsonRpc::get_id
get_id(m) ==
    IF m.kind \in {"Request", "Success", "Error"} THEN Some(m.id) ELSE None

\* JsonRpc::get_params
get_params(m) ==
    IF m.kind \in {"Notification", "Request"} THEN m.params ELSE None

\* JsonRpc::get_method
get_method(m) ==
    IF m.kind \in {"Notification", "Request"} THEN Some(m.method) ELSE None

\* JsonRpc::get_result
get_result(m) == IF m.kind = "Success" THEN Some(m.result) ELSE None

\* JsonRpc::get_error
get_error(m) == IF m.kind = "Error" THEN Some(m.error) ELSE None

\* JsonRpc::is_request
is_request(m) == m.kind = "Request"

\* JsonRpc::is_notification
is_notification(m) == m.kind = "Notification"

\* JsonRpc::is_success
is_success(m) == m.kind = "Success"

\* JsonRpc::is_error
is_error(m) == m.kind = "Error"

(***************************************************************************)
(* Serialize: the derived impls, and serde_json's to_string and to_value   *)
(***************************************************************************)

\* i64 as a serde_json Number
Ser_i64(n) ==
    Num(IF n.neg THEN "NegInt" ELSE "PosInt", n.neg, n.mag, FALSE)

\* Id writing its unit variant as the empty string
Ser_Id_unit_as_empty_string(id) ==
    CASE id.t = "Num"  -> Ser_i64(id)
      [] id.t = "Str"  -> Str(id.s)
      [] id.t = "None" -> Str("")

\* Id, untagged: the number, the string, or unit, which JSON writes as null
Ser_Id(id) ==
    CASE id.t = "Num"  -> Ser_i64(id)
      [] id.t = "Str"  -> Str(id.s)
      [] id.t = "None" -> Null

\* Params, untagged: the sequence, the map, or unit
Ser_Params(p) ==
    CASE p.t = "Array" -> Arr(p.a)
      [] p.t = "Map"   -> Obj(p.o)
      [] p.t = "None"  -> Null

\* one serialized struct field: its key, its value, its text
F(key, v) == [key |-> key, v |-> v, toks |-> ToTokens(v)]

\* the text of a struct: its fields in the order they were written
StructTokens(fields) ==
    <<P("{")>>
      \o Commas([i \in 1..Len(fields) |->
             <<Str(fields[i].key), P(":")>> \o fields[i].toks])
      \o <<P("}")>>

RECURSIVE StructMap(_)
\* the Map a struct's fields are inserted into, one after the other
StructMap(fields) ==
    IF fields = <<>> THEN EmptyMap
    ELSE LET n == Len(fields) IN
         Insert(StructMap(SubSeq(fields, 1, n - 1)), fields[n].key, fields[n].v)

\* a field that is itself a struct
FS(key, fields) ==
    [key |-> key, v |-> Obj(StructMap(fields)), toks |-> StructTokens(fields)]

\* an RpcError whose data is written as null when it is None
Ser_RpcError_data_always(e) ==
    <<F("code", Ser_i64(e.code)), F("message", Str(e.message)),
      F("data", IF e.data.some THEN e.data.x ELSE Null)>>

\* RpcError: code, message, and data unless it is None
Ser_RpcError(e) ==
    <<F("code", Ser_i64(e.code)), F("message", Str(e.message))>>
      \o (IF e.data.some THEN <<F("data", e.data.x)>> ELSE <<>>)

\* a Request or Notification whose params field is written even when None
Ser_Request_params_always(m) ==
    <<F("jsonrpc", Str(m.jsonrpc)), F("method", Str(m.method)),
      F("params", IF m.params.some THEN Ser_Params(m.params.x) ELSE Null)>>
      \o (IF m.kind = "Request" THEN <<F("id", Ser_Id(m.id))>> ELSE <<>>)

\* Request: jsonrpc, method, params unless it is None, id
Ser_Request(m) ==
    <<F("jsonrpc", Str(m.jsonrpc)), F("method", Str(m.method))>>
      \o (IF m.params.some THEN <<F("params", Ser_Params(m.params.x))>>
          ELSE <<>>)
      \o <<F("id", Ser_Id(m.id))>>

\* Notification: jsonrpc, method, params unless it is None
Ser_Notification(m) ==
    <<F("jsonrpc", Str(m.jsonrpc)), F("method", Str(m.method))>>
      \o (IF m.params.some THEN <<F("params", Ser_Params(m.params.x))>>
          ELSE <<>>)

\* Success: jsonrpc, result, id
Ser_Success(m) ==
    <<F("jsonrpc", Str(m.jsonrpc)), F("result", m.result), F("id", Ser_Id(m.id))>>

\* Error: jsonrpc, error, id
Ser_Error(m) ==
    <<F("jsonrpc", Str(m.jsonrpc)), FS("error", Ser_RpcError(m.error)),
      F("id", Ser_Id(m.id))>>

\* JsonRpc, untagged: the fields of the record it holds
Ser_JsonRpc(m) ==
    CASE m.kind = "Request"      -> Ser_Request(m)
      [] m.kind = "Notification" -> Ser_Notification(m)
      [] m.kind = "Success"      -> Ser_Success(m)
      [] m.kind = "Error"        -> Ser_Error(m)

\* serde_json::to_string(&rpc)
to_string(m) == StructTokens(Ser_JsonRpc(m))

\* serde_json::to_value(rpc)
to_value(m) == Obj(StructMap(Ser_JsonRpc(m)))

(***************************************************************************)
(* The classifier                                                          *)
(***************************************************************************)

Ok(m) == [ok |-> TRUE, msg |-> m]

\* Err(JsonRpcErr::InvalidVersionParsed(ver))
ErrInvalidVersionParsed(ver) == [ok |-> FALSE, ver |-> ver]

\* JsonRpc::get_version
get_version(m) == m.jsonrpc

\* a check that takes "2" and "2.00" for the version as well
check_version_major_only(m) ==
    LET ver == get_version(m) IN
    IF ver \notin {"2.0", "2.00", "2"} THEN ErrInvalidVersionParsed(ver)
    ELSE Ok(m)

\* JsonRpc::check_version
check_version(m) ==
    LET ver == get_version(m) IN
    IF ver # V2 THEN ErrInvalidVersionParsed(ver) ELSE Ok(m)

\* parse without the version check
parse_unchecked(val) ==
    IF val.ok
    THEN LET m == from_value(val.v) IN
         IF m.ok THEN Ok(m.v)
         ELSE Ok(JsonRpc_error(Unit, RpcError_invalid_request))
    ELSE Ok(JsonRpc_error(Unit, RpcError_parse_error))

\* parse with the two substitutes the wrong way round
parse_substitutes_swapped(val) ==
    IF val.ok
    THEN LET m == from_value(val.v) IN
         IF m.ok THEN check_version(m.v)
         ELSE Ok(JsonRpc_error(Unit, RpcError_parse_error))
    ELSE Ok(JsonRpc_error(Unit, RpcError_invalid_request))

\* parse marking the objects it generates itself with a data member
parse_tags_substitutes(val) ==
    IF val.ok
    THEN LET m == from_value(val.v) IN
         IF m.ok THEN check_version(m.v)
         ELSE Ok(JsonRpc_error(Unit,
                 RpcError_with_data(RpcError_invalid_request, Some(Bool(TRUE)))))
    ELSE Ok(JsonRpc_error(Unit,
            RpcError_with_data(RpcError_parse_error, Some(Bool(TRUE)))))

\* JsonRpc::parse, on the outcome of serde_json's parse of the text
parse(val) ==
    IF val.ok
    THEN LET m == from_value(val.v) IN
         IF m.ok THEN check_version(m.v)
         ELSE Ok(JsonRpc_error(Unit, RpcError_invalid_request))
    ELSE Ok(JsonRpc_error(Unit, RpcError_parse_error))

\* parse_vec answering unreadable text with an empty list
parse_vec_drops_unreadable(vals) ==
    IF vals.ok
    THEN IF vals.v = <<>>
         THEN <<Ok(JsonRpc_error(Unit, RpcError_invalid_request))>>
         ELSE [i \in 1..Len(vals.v) |-> parse(SOk(vals.v[i]))]
    ELSE <<>>

\* parse_vec without the rule for the empty batch
parse_vec_maps_empty(vals) ==
    IF vals.ok
    THEN [i \in 1..Len(vals.v) |-> parse(SOk(vals.v[i]))]
    ELSE <<Ok(JsonRpc_error(Unit, RpcError_parse_error))>>

\* parse_vec giving up on the whole batch at the first version mismatch:
\* every slot then holds that Err
parse_vec_all_or_nothing(vals) ==
    IF vals.ok
    THEN IF vals.v = <<>>
         THEN <<Ok(JsonRpc_error(Unit, RpcError_invalid_request))>>
         ELSE LET rs == [i \in 1..Len(vals.v) |-> parse(SOk(vals.v[i]))]
                  bad == {i \in 1..Len(rs) : ~rs[i].ok}
              IN  IF bad = {} THEN rs
                  ELSE LET first == CHOOSE i \in bad : \A k \in bad : i <= k
                       IN  [i \in 1..Len(rs) |-> rs[first]]
    ELSE <<Ok(JsonRpc_error(Unit, RpcError_parse_error))>>

\* parse_vec passing over the elements that are no objects or arrays
parse_vec_skips_scalars(vals) ==
    IF vals.ok
    THEN IF vals.v = <<>>
         THEN <<Ok(JsonRpc_error(Unit, RpcError_invalid_request))>>
         ELSE LET kept == SelectSeq(vals.v, LAMBDA e : e.k \in {"obj", "arr"})
              IN  [i \in 1..Len(kept) |-> parse(SOk(kept[i]))]
    ELSE <<Ok(JsonRpc_error(Unit, RpcError_parse_error))>>

\* JsonRpc::parse_vec
parse_vec(vals) ==
    IF vals.ok
    THEN IF vals.v = <<>>
         THEN <<Ok(JsonRpc_error(Unit, RpcError_invalid_request))>>
         ELSE [i \in 1..Len(vals.v) |-> parse(SOk(vals.v[i]))]
    ELSE <<Ok(JsonRpc_error(Unit, RpcError_parse_error))>>

from_str(t) == parse(from_str_Value(t))

from_str_vec(t) == parse_vec(from_str_Vec(t))

\* bytes and readers carry the same text; serde_json reads them alike
from_slice(t) == parse(from_str_Value(t))

from_slice_vec(t) == parse_vec(from_str_Vec(t))

from_reader(t) == parse(from_str_Value(t))

from_reader_vec(t) == parse_vec(from_str_Vec(t))

(***************************************************************************)
(* The documents and texts the operations are called with                  *)
(***************************************************************************)

\* longest array handed in, as a document or as a batch
MaxBatch == 3

\* a key that the document does not hold
Absent == [k |-> "absent"]

Float15 == Num("Float", FALSE, Small(1), TRUE)

ErrObj(code, message, data) ==
    LET f == [code |-> code, message |-> message, data |-> data] IN
    Obj([key \in {x \in DOMAIN f : f[x] # Absent} |-> f[key]])

JsonrpcVals ==
    {Absent, Str("2.0"), Str("1.0"), Str("2"), Str("2.00"), Str(""), PosInt(2)}

MethodVals == {Absent, Str("m"), PosInt(1)}

ParamsVals ==
    {Absent, Null, Arr(<<PosInt(1)>>), Obj("a" :> PosInt(1)), PosInt(5)}

\* 2^63: a u64 that is no i64
Above_I64_MAX == Num("PosInt", FALSE, I64_MIN_MAG, FALSE)

IdVals ==
    {Absent, Null, PosInt(1), Str("1"), Bool(TRUE), Float15, Arr(<<>>),
     Above_I64_MAX}

ResultVals == {Absent, Null, PosInt(19)}

ErrorVals ==
    {Absent,
     ErrObj(NegInt(32700), Str("Parse error"), Absent),
     ErrObj(PosInt(1), Str("x"), PosInt(7)),
     ErrObj(Str("1"), Str("x"), Absent),
     Arr(<<PosInt(1), Str("x")>>),
     Str("oops")}

\* the object holding the keys that are not Absent
Doc(j, m, p, i, r, e) ==
    LET f == [jsonrpc |-> j, method |-> m, params |-> p, id |-> i,
              result |-> r, error |-> e]
    IN  Obj([key \in {x \in DOMAIN f : f[x] # Absent} |-> f[key]])

ObjectDocs ==
    {Doc(j, m, p, i, r, e) :
        j \in JsonrpcVals, m \in MethodVals, p \in ParamsVals,
        i \in IdVals, r \in ResultVals, e \in ErrorVals}

\* the messages of the batch tests, and what else an array may hold
Elems ==
    {Str("2.0"), Str("m"), Null, PosInt(1),
     Doc(Str("2.0"), Str("m"), Arr(<<PosInt(1)>>), Str("1"), Absent, Absent),
     Doc(Str("2.0"), Str("m"), Absent, Absent, Absent, Absent),
     Doc(Str("2.0"), Absent, Absent, PosInt(1), PosInt(19), Absent),
     Doc(Str("1.0"), Str("m"), Absent, PosInt(1), Absent, Absent),
     Obj("foo" :> Str("boo"))}

RECURSIVE SeqsUpTo(_, _)
\* the sequences over S of length at most n
SeqsUpTo(S, n) ==
    IF n = 0 THEN {<<>>}
    ELSE LET shorter == SeqsUpTo(S, n - 1) IN
         shorter \cup {Append(q, x) : q \in shorter, x \in S}

ArrayDocs == {Arr(q) : q \in SeqsUpTo(Elems, MaxBatch)}

ScalarDocs == {Null, Bool(FALSE), PosInt(1), Float15, Str("2.0")}

Docs == ObjectDocs \cup ArrayDocs \cup ScalarDocs

\* texts that are cut short, or hold a token too many or a broken one
CutDocs ==
    {Doc(Str("2.0"), Str("m"), Arr(<<PosInt(1)>>), PosInt(1), Absent, Absent),
     Doc(Str("2.0"), Absent, Absent, Null, PosInt(19), Absent),
     Arr(<<Doc(Str("2.0"), Str("m"), Absent, Str("1"), Absent, Absent),
           Doc(Str("2.0"), Str("m"), Absent, Absent, Absent, Absent)>>),
     Arr(<<PosInt(1), PosInt(1)>>),
     Arr(<<>>),
     PosInt(1)}

Broken(t) ==
    {SubSeq(t, 1, n) : n \in 0..(Len(t) - 1)}
      \cup {t \o <<x>> : x \in {Bad, P("}"), P("]"), Null}}
      \cup {[t EXCEPT ![n] = Bad] : n \in 1..Len(t)}
      \cup {SubSeq(t, 1, n - 1) \o SubSeq(t, n + 1, Len(t)) : n \in 1..Len(t)}

\* the Requests of the tests call_named_param and call_pos_param: the
\* members of params written as "b" then "a", and lists in both orders
OrderTexts ==
    {StructTokens(<<F("jsonrpc", Str("2.0")), F("method", Str("m")),
                    FS("params", <<F("b", PosInt(2)), F("a", PosInt(1))>>),
                    F("id", PosInt(3))>>),
     StructTokens(<<F("jsonrpc", Str("2.0")), F("method", Str("m")),
                    F("params", Arr(<<PosInt(1), PosInt(2)>>)),
                    F("id", PosInt(3))>>),
     StructTokens(<<F("jsonrpc", Str("2.0")), F("method", Str("m")),
                    F("params", Arr(<<PosInt(2), PosInt(1)>>)),
                    F("id", PosInt(3))>>)}

\* -(2^63 + 1): below every i64
Below_I64_MIN == Num("Float", TRUE, Limbs(0, 32768, 0, 0, 1), FALSE)

\* responses whose id is at or beyond the ends of the i64 range, and an
\* Error whose data is null
EdgeDocs ==
    {Doc(Str("2.0"), Absent, Absent, i, r, e) :
        i \in {Num("PosInt", FALSE, I64_MAX, FALSE), Above_I64_MAX,
               Num("NegInt", TRUE, I64_MIN_MAG, FALSE), Below_I64_MIN},
        r \in {Absent, PosInt(19)},
        e \in {Absent, ErrObj(PosInt(1), Str("x"), Absent)}}
      \cup {Doc(Str("2.0"), Absent, Absent, PosInt(1), Absent,
                ErrObj(PosInt(1), Str("x"), Null))}

Texts ==
    {ToTokens(d) : d \in Docs}
      \cup UNION {Broken(ToTokens(d)) : d \in CutDocs}
      \cup OrderTexts
      \cup {ToTokens(d) : d \in EdgeDocs}

\* what the constructors are called with
I64Vals ==
    {I64(0), I64(1), I64(-5), I64(-32000), I64(-32700),
     [neg |-> FALSE, mag |-> I64_MAX], [neg |-> TRUE, mag |-> I64_MIN_MAG]}

IdArgs ==
    {Unit, Arg_String("1"), Arg_String("")}
      \cup {Arg_i64(n) : n \in {I64(0), I64(1), I64(-5),
                                   [neg |-> FALSE, mag |-> I64_MAX],
                                   [neg |-> TRUE, mag |-> I64_MIN_MAG]}}

MethodArgs == {"m", ""}

Map_ab == Insert(Insert(EmptyMap, "a", PosInt(1)), "b", PosInt(2))

ParamsArgs ==
    {Unit,
     Arg_Vec(<<PosInt(1), PosInt(2)>>),
     Arg_Map(Map_ab),
     Arg_Value(Arr(<<PosInt(1), PosInt(2)>>)),
     Arg_Value(Arr(<<PosInt(2), PosInt(1)>>)),
     Arg_Value(Arr(<<>>)),
     Arg_Value(Obj(Map_ab)),
     Arg_Value(Obj(EmptyMap)),
     Arg_Value(Null),
     Arg_Value(Bool(TRUE)),
     Arg_Value(PosInt(5)),
     Arg_Value(Str("x"))}

ResultArgs ==
    {Null, Bool(TRUE), PosInt(19), Float15, Str("x"), Arr(<<PosInt(1)>>),
     Obj(Map_ab)}

MessageArgs == {"x", "", "Invalid request"}

\* with_data's argument, converted into Option<Value>
DataArgs == {None, Some(Null), Some(PosInt(7)), Some(Obj(Map_ab))}

(***************************************************************************)
(* Calls                                                                   *)
(***************************************************************************)

NoCall == [f |-> "none"]

Init ==
    /\ input \in Texts
    /\ op = "none"
    /\ ret = <<>>
    /\ retv = <<>>
    /\ call = NoCall
    /\ err = <<>>
    /\ rpc = <<>>
    /\ wire = <<>>

\* JsonRpc::from_str(input)
Call_from_str ==
    /\ op \in {"none", "to_string"}
    /\ op' = "from_str"
    /\ ret' = <<from_str(input)>>
    /\ UNCHANGED <<input, retv, call, err, rpc, wire>>

\* JsonRpc::from_slice(input)
Call_from_slice ==
    /\ op \in {"none", "to_string"}
    /\ op' = "from_slice"
    /\ ret' = <<from_slice(input)>>
    /\ UNCHANGED <<input, retv, call, err, rpc, wire>>

\* JsonRpc::from_reader(input)
Call_from_reader ==
    /\ op \in {"none", "to_string"}
    /\ op' = "from_reader"
    /\ ret' = <<from_reader(input)>>
    /\ UNCHANGED <<input, retv, call, err, rpc, wire>>

\* JsonRpc::from_str_vec(input)
Call_from_str_vec ==
    /\ op \in {"none", "to_string"}
    /\ op' = "from_str_vec"
    /\ retv' = from_str_vec(input)
    /\ UNCHANGED <<input, ret, call, err, rpc, wire>>

\* JsonRpc::from_slice_vec(input)
Call_from_slice_vec ==
    /\ op \in {"none", "to_string"}
    /\ op' = "from_slice_vec"
    /\ retv' = from_slice_vec(input)
    /\ UNCHANGED <<input, ret, call, err, rpc, wire>>

\* JsonRpc::from_reader_vec(input)
Call_from_reader_vec ==
    /\ op \in {"none", "to_string"}
    /\ op' = "from_reader_vec"
    /\ retv' = from_reader_vec(input)
    /\ UNCHANGED <<input, ret, call, err, rpc, wire>>

\* nothing has been parsed or built yet, and there is no text to parse
Fresh == op = "none" /\ input = <<>>

\* the RpcError constructors
Call_RpcError_reserved ==
    /\ Fresh
    /\ \E f \in {"parse_error", "invalid_request", "method_not_found",
                 "invalid_params", "internal_error"} :
         /\ call' = [f |-> f]
         /\ err' = <<CASE f = "parse_error"      -> RpcError_parse_error
                       [] f = "invalid_request"  -> RpcError_invalid_request
                       [] f = "method_not_found" -> RpcError_method_not_found
                       [] f = "invalid_params"   -> RpcError_invalid_params
                       [] f = "internal_error"   -> RpcError_internal_error>>
    /\ op' = "RpcError"
    /\ UNCHANGED <<input, ret, retv, rpc, wire>>

\* RpcError::server_error(code)
Call_RpcError_server_error ==
    /\ Fresh
    /\ \E code \in I64Vals :
         /\ call' = [f |-> "server_error", code |-> code]
         /\ err' = <<RpcError_server_error(code)>>
    /\ op' = "RpcError"
    /\ UNCHANGED <<input, ret, retv, rpc, wire>>

\* RpcError::custom(code, msg)
Call_RpcError_custom ==
    /\ Fresh
    /\ \E code \in I64Vals, m \in MessageArgs :
         /\ call' = [f |-> "custom", code |-> code, msg |-> m]
         /\ err' = <<RpcError_custom(code, m)>>
    /\ op' = "RpcError"
    /\ UNCHANGED <<input, ret, retv, rpc, wire>>

\* err.with_data(data): the error at hand is replaced by what comes back;
\* a clone taken earlier is another value
Call_with_data ==
    /\ op \in {"RpcError", "with_data", "clone"}
    /\ \E data \in DataArgs :
         /\ call' = [f |-> "with_data", data |-> data]
         /\ err' = <<RpcError_with_data(err[1], data)>> \o Tail(err)
    /\ op' = "with_data"
    /\ UNCHANGED <<input, ret, retv, rpc, wire>>

\* err.clone(), kept next to the error at hand
Call_clone ==
    /\ op = "with_data"
    /\ Len(err) = 1
    /\ op' = "clone"
    /\ err' = <<err[1], err[1]>>
    /\ UNCHANGED <<input, ret, retv, call, rpc, wire>>

\* JsonRpc::request(id, method)
Call_request ==
    /\ Fresh
    /\ \E id \in IdArgs, method \in MethodArgs :
         /\ call' = [f |-> "request", id |-> id, method |-> method]
         /\ rpc' = <<JsonRpc_request(id, method)>>
    /\ op' = "JsonRpc"
    /\ UNCHANGED <<input, ret, retv, err, wire>>

\* JsonRpc::request_with_params(id, method, params)
Call_request_with_params ==
    /\ Fresh
    /\ \E id \in IdArgs, method \in MethodArgs, params \in ParamsArgs :
         /\ call' = [f |-> "request_with_params", id |-> id,
                     method |-> method, params |-> params]
         /\ rpc' = <<JsonRpc_request_with_params(id, method, params)>>
    /\ op' = "JsonRpc"
    /\ UNCHANGED <<input, ret, retv, err, wire>>

\* JsonRpc::notification(method)
Call_notification ==
    /\ Fresh
    /\ \E method \in MethodArgs :
         /\ call' = [f |-> "notification", method |-> method]
         /\ rpc' = <<JsonRpc_notification(method)>>
    /\ op' = "JsonRpc"
    /\ UNCHANGED <<input, ret, retv, err, wire>>

\* JsonRpc::notification_with_params(method, params)
Call_notification_with_params ==
    /\ Fresh
    /\ \E method \in MethodArgs, params \in ParamsArgs :
         /\ call' = [f |-> "notification_with_params", method |-> method,
                     params |-> params]
         /\ rpc' = <<JsonRpc_notification_with_params(method, params)>>
    /\ op' = "JsonRpc"
    /\ UNCHANGED <<input, ret, retv, err, wire>>

\* JsonRpc::success(id, &result)
Call_success ==
    /\ Fresh
    /\ \E id \in IdArgs, result \in ResultArgs :
         /\ call' = [f |-> "success", id |-> id, result |-> result]
         /\ rpc' = <<JsonRpc_success(id, result)>>
    /\ op' = "JsonRpc"
    /\ UNCHANGED <<input, ret, retv, err, wire>>

\* JsonRpc::error(id, err)
Call_error ==
    /\ op \in {"RpcError", "with_data", "clone"}
    /\ \E id \in IdArgs :
         /\ call' = [f |-> "error", id |-> id]
         /\ rpc' = <<JsonRpc_error(id, err[1])>>
    /\ op' = "JsonRpc"
    /\ UNCHANGED <<input, ret, retv, err, wire>>

\* JsonRpc::parse_error(id) .. JsonRpc::internal_error(id): the Error message
\* and, in err, the RpcError it was made of
Call_reserved_error ==
    /\ Fresh
    /\ \E id \in IdArgs,
          f \in {"parse_error", "invalid_request_error",
                 "method_not_found_error", "invalid_params_error",
                 "internal_error"} :
         LET m == CASE f = "parse_error" -> JsonRpc_parse_error(id)
                    [] f = "invalid_request_error" ->
                         JsonRpc_invalid_request_error(id)
                    [] f = "method_not_found_error" ->
                         JsonRpc_method_not_found_error(id)
                    [] f = "invalid_params_error" ->
                         JsonRpc_invalid_params_error(id)
                    [] f = "internal_error" -> JsonRpc_internal_error(id)
         IN  /\ call' = [f |-> "error", id |-> id, short |-> f]
             /\ rpc' = <<m>>
             /\ err' = <<m.error>>
    /\ op' = "JsonRpc"
    /\ UNCHANGED <<input, ret, retv, wire>>

\* JsonRpc::server_error(id, code)
Call_server_error ==
    /\ Fresh
    /\ \E id \in IdArgs, code \in I64Vals :
         LET m == JsonRpc_server_error(id, code)
         IN  /\ call' = [f |-> "error", id |-> id, short |-> "server_error",
                         code |-> code]
             /\ rpc' = <<m>>
             /\ err' = <<m.error>>
    /\ op' = "JsonRpc"
    /\ UNCHANGED <<input, ret, retv, wire>>

\* serde_json::to_string(&msg): the text that goes on the wire
Call_to_string ==
    /\ op = "JsonRpc"
    /\ op' = "to_string"
    /\ input' = to_string(rpc[1])
    /\ UNCHANGED <<ret, retv, call, err, rpc, wire>>

\* serde_json::to_value of the message just built
Call_to_value_built ==
    /\ op = "JsonRpc"
    /\ op' = "to_value_built"
    /\ wire' = <<to_value(rpc[1])>>
    /\ UNCHANGED <<input, ret, retv, call, err, rpc>>

\* serde_json::to_value of the message a single-object call returned
Call_to_value_parsed ==
    /\ op \in {"from_str", "from_slice", "from_reader"}
    /\ ret[1].ok
    /\ op' = "to_value_parsed"
    /\ wire' = <<to_value(ret[1].msg)>>
    /\ UNCHANGED <<input, ret, retv, call, err, rpc>>

Next ==
    \/ Call_from_str
    \/ Call_from_slice
    \/ Call_from_reader
    \/ Call_from_str_vec
    \/ Call_from_slice_vec
    \/ Call_from_reader_vec
    \/ Call_RpcError_reserved
    \/ Call_RpcError_server_error
    \/ Call_RpcError_custom
    \/ Call_with_data
    \/ Call_clone
    \/ Call_request
    \/ Call_request_with_params
    \/ Call_notification
    \/ Call_notification_with_params
    \/ Call_success
    \/ Call_error
    \/ Call_reserved_error
    \/ Call_server_error
    \/ Call_to_string
    \/ Call_to_value_built
    \/ Call_to_value_parsed

Spec == Init /\ [][Next]_vars

SingleOps == {"from_str", "from_slice", "from_reader"}

BatchOps == {"from_str_vec", "from_slice_vec", "from_reader_vec"}

(***************************************************************************)
(* What the properties speak of, in the wire format's own terms           *)
(***************************************************************************)

\* the outcome of reading the input as JSON
Syntax == from_str_Value(input)

\* the result of the single-object call that was made
Single == ret[1]

IsObject(v) == v.k = "obj"

IsString(v) == v.k = "str"

\* an integer within the signed 64-bit range
IsI64(v) == v.k = "num" /\ v.rep \in {"PosInt", "NegInt"} /\ (v.neg \/ LimbLE(v.mag, I64_MAX))

\* an id of the protocol: integer, string or null
ValidId(v) == v.k = "null" \/ IsString(v) \/ IsI64(v)

\* params of the protocol: a list or a map (null reads as none)
ValidParams(v) == v.k \in {"null", "arr", "obj"}

\* an error record {code, message, data?}
ValidErrorRecord(v) ==
    /\ IsObject(v)
    /\ "code" \in DOMAIN v.o /\ IsI64(v.o["code"])
    /\ "message" \in DOMAIN v.o /\ IsString(v.o["message"])

Has(v, key) == key \in DOMAIN v.o

ParamsFit(v) == ~Has(v, "params") \/ ValidParams(v.o["params"])

\* the four record shapes: the required fields are present and typed, the
\* optional ones typecheck when present
ShapeRequest(v) ==
    /\ Has(v, "jsonrpc") /\ IsString(v.o["jsonrpc"])
    /\ Has(v, "method") /\ IsString(v.o["method"])
    /\ Has(v, "id") /\ ValidId(v.o["id"])
    /\ ParamsFit(v)

ShapeNotification(v) ==
    /\ Has(v, "jsonrpc") /\ IsString(v.o["jsonrpc"])
    /\ Has(v, "method") /\ IsString(v.o["method"])
    /\ ParamsFit(v)

ShapeSuccess(v) ==
    /\ Has(v, "jsonrpc") /\ IsString(v.o["jsonrpc"])
    /\ Has(v, "result")
    /\ Has(v, "id") /\ ValidId(v.o["id"])

ShapeError(v) ==
    /\ Has(v, "jsonrpc") /\ IsString(v.o["jsonrpc"])
    /\ Has(v, "error") /\ ValidErrorRecord(v.o["error"])
    /\ Has(v, "id") /\ ValidId(v.o["id"])

MatchesShape(v) ==
    /\ IsObject(v)
    /\ ShapeRequest(v) \/ ShapeNotification(v) \/ ShapeSuccess(v) \/ ShapeError(v)

\* Ok(Error message) with the given code and message, no data, absent id
IsErrorObject(r, code, message) ==
    /\ r.ok
    /\ r.msg.kind = "Error"
    /\ r.msg.error = [code |-> I64(code), message |-> message, data |-> None]
    /\ r.msg.id = IdNone

IsParseError(r) == IsErrorObject(r, -32700, "Parse error")

IsInvalidRequest(r) == IsErrorObject(r, -32600, "Invalid request")

(***************************************************************************)
(* Properties                                                              *)
(***************************************************************************)

\* C1: a single-object call on text that is not valid JSON returns Ok with
\* the Error message {-32700, "Parse error", no data} and absent id.
C1_MalformedTextIsParseError ==
    (op \in SingleOps /\ ~Syntax.ok) => IsParseError(Single)

\* C1 witness: a malformed, non-empty text went through a single-object call
C1_Witness ==
    /\ op \in SingleOps
    /\ ~Syntax.ok
    /\ Len(input) > 3
    /\ IsParseError(Single)

\* C2: valid JSON that matches none of the four shapes (a scalar, an array,
\* an object without method, result and error) is answered, by a
\* single-object call, with Ok(Error {-32600, "Invalid request", no data})
\* and absent id.
C2_NoShapeIsInvalidRequest ==
    (/\ op \in SingleOps
     /\ Syntax.ok
     /\ \/ ~IsObject(Syntax.v)
        \/ /\ ~Has(Syntax.v, "method")
           /\ ~Has(Syntax.v, "result")
           /\ ~Has(Syntax.v, "error"))
    => IsInvalidRequest(Single)

\* C3: an object in which a required field is present with the wrong type
\* (method not a string, id neither integer, string nor null, error not a
\* {code, message} record) classifies as the Invalid request object and
\* as no message of another kind.  Stated for the documents whose jsonrpc
\* is "2.0", where no version mismatch can be the answer.
C3_WrongTypeIsInvalidRequest ==
    (/\ op \in SingleOps
     /\ Syntax.ok
     /\ IsObject(Syntax.v)
     /\ Has(Syntax.v, "jsonrpc") /\ Syntax.v.o["jsonrpc"] = Str("2.0")
     /\ \/ Has(Syntax.v, "method") /\ ~IsString(Syntax.v.o["method"])
        \/ Has(Syntax.v, "id") /\ ~ValidId(Syntax.v.o["id"])
        \/ Has(Syntax.v, "error") /\ ~ValidErrorRecord(Syntax.v.o["error"]))
    => IsInvalidRequest(Single)

\* C4: a document that matches a shape and whose jsonrpc is a string other
\* than "2.0" makes a single-object call return Err(version mismatch) that
\* carries exactly the string received.
C4_OtherVersionIsErr ==
    (/\ op \in SingleOps
     /\ Syntax.ok
     /\ MatchesShape(Syntax.v)
     /\ Syntax.v.o["jsonrpc"].s # "2.0")
    => (~Single.ok /\ Single.ver = Syntax.v.o["jsonrpc"].s)

\* C4 witness: the near miss "2.00" on a Success document came back as Err
C4_Witness ==
    /\ op \in SingleOps
    /\ Syntax.ok
    /\ IsObject(Syntax.v)
    /\ ShapeSuccess(Syntax.v)
    /\ ~Has(Syntax.v, "method")
    /\ Syntax.v.o["jsonrpc"].s = "2.00"
    /\ ~Single.ok
    /\ Single.ver = "2.00"

\* the keys of a shape, whatever the jsonrpc key holds or whether it is there
KeysOfShape(v) ==
    \/ /\ Has(v, "method") /\ IsString(v.o["method"]) /\ ParamsFit(v)
       /\ Has(v, "id") => ValidId(v.o["id"])
    \/ Has(v, "result") /\ Has(v, "id") /\ ValidId(v.o["id"])
    \/ /\ Has(v, "error") /\ ValidErrorRecord(v.o["error"])
       /\ Has(v, "id") /\ ValidId(v.o["id"])

C6_ErrOnlyForVersion ==
    op \in SingleOps =>
        /\ (~Syntax.ok \/ ~MatchesShape(Syntax.v))
              => (Single.ok /\ Single.msg.kind = "Error")
        /\ ~Single.ok
              => /\ Syntax.ok
                 /\ MatchesShape(Syntax.v)
                 /\ Syntax.v.o["jsonrpc"].s # "2.0"

\* an object with jsonrpc "2.0" and a string method
MethodCall(v) ==
    /\ IsObject(v)
    /\ Has(v, "jsonrpc") /\ v.o["jsonrpc"] = Str("2.0")
    /\ Has(v, "method") /\ IsString(v.o["method"])

\* Request when the id key is there, Notification when it is not
RequestOrNotification(v, r) ==
    /\ r.ok
    /\ IF Has(v, "id") THEN r.msg.kind = "Request"
                       ELSE r.msg.kind = "Notification"
    /\ r.msg.jsonrpc = "2.0"
    /\ r.msg.method = v.o["method"].s

\* C7 as stated: an object with jsonrpc "2.0" and a string method is a
\* Request when it has an id key (integer, string or null) and a
\* Notification when it has none, whatever else the object holds.
C7_MethodSelects ==
    (/\ op \in SingleOps
     /\ Syntax.ok
     /\ MethodCall(Syntax.v)
     /\ Has(Syntax.v, "id") => ValidId(Syntax.v.o["id"]))
    => RequestOrNotification(Syntax.v, Single)

\* C7 amended: the same, for objects whose params key, if there is one,
\* holds an array, an object or null; result and error keys do not matter.
C7_MethodSelectsWhenParamsFit ==
    (/\ op \in SingleOps
     /\ Syntax.ok
     /\ MethodCall(Syntax.v)
     /\ ParamsFit(Syntax.v)
     /\ Has(Syntax.v, "id") => ValidId(Syntax.v.o["id"]))
    => RequestOrNotification(Syntax.v, Single)

\* C7 witness: a Request came out of an object that also holds result and
\* error keys
C7_Witness ==
    /\ op \in SingleOps
    /\ Syntax.ok
    /\ MethodCall(Syntax.v)
    /\ Has(Syntax.v, "id") /\ Has(Syntax.v, "result") /\ Has(Syntax.v, "error")
    /\ Single.ok
    /\ Single.msg.kind = "Request"

\* an object with jsonrpc "2.0", a valid id and no method key
Response(v) ==
    /\ IsObject(v)
    /\ Has(v, "jsonrpc") /\ v.o["jsonrpc"] = Str("2.0")
    /\ Has(v, "id") /\ ValidId(v.o["id"])
    /\ ~Has(v, "method")

\* C8: an object with jsonrpc "2.0", a valid id and no method is a Success
\* when only result is present, an Error when only a valid error record is
\* present, and the Invalid request object when neither is present.
C8_ResponseSelects ==
    (op \in SingleOps /\ Syntax.ok /\ Response(Syntax.v)) =>
        /\ (Has(Syntax.v, "result") /\ ~Has(Syntax.v, "error"))
              => /\ Single.ok
                 /\ Single.msg.kind = "Success"
                 /\ Single.msg.result = Syntax.v.o["result"]
        /\ (/\ ~Has(Syntax.v, "result")
            /\ Has(Syntax.v, "error")
            /\ ValidErrorRecord(Syntax.v.o["error"]))
              => /\ Single.ok
                 /\ Single.msg.kind = "Error"
                 /\ Single.msg.error.message = Syntax.v.o["error"].o["message"].s
        /\ (~Has(Syntax.v, "result") /\ ~Has(Syntax.v, "error"))
              => IsInvalidRequest(Single)

\* C8 witness: an Error message came out of an object with only an error
C8_Witness ==
    /\ op \in SingleOps
    /\ Syntax.ok
    /\ Response(Syntax.v)
    /\ ~Has(Syntax.v, "result")
    /\ Has(Syntax.v, "error")
    /\ Single.ok
    /\ Single.msg.kind = "Error"
    /\ Single.msg.error.message = "x"

\* C9: a batch call on text that is not valid JSON returns a list of one
\* element, Ok(Error {-32700, "Parse error"}) with absent id, also when the
\* text begins with complete messages.
C9_MalformedBatchIsOneParseError ==
    (op \in BatchOps /\ ~Syntax.ok)
    => (Len(retv) = 1 /\ IsParseError(retv[1]))

\* C9 witness: the malformed text opens an array whose first element is a
\* complete message
C9_Witness ==
    /\ op \in BatchOps
    /\ ~Syntax.ok
    /\ Len(input) > 1
    /\ input[1].k = "["
    /\ \E n \in 2..Len(input) :
          LET first == from_str_Value(SubSeq(input, 2, n)) IN
          first.ok /\ from_value(first.v).ok
    /\ Len(retv) = 1

\* C10: a batch call on the empty array returns a list of one element,
\* Ok(Error {-32600, "Invalid request"}) with absent id.
C10_EmptyBatchIsOneInvalidRequest ==
    (op \in BatchOps /\ input = <<P("["), P("]")>>)
    => (Len(retv) = 1 /\ IsInvalidRequest(retv[1]))

\* C10 witness: the text "[]" went through a batch call
C10_Witness ==
    /\ op \in BatchOps
    /\ input = <<P("["), P("]")>>
    /\ Len(retv) = 1

\* the input is a JSON array that holds at least one element
IsBatch == Syntax.ok /\ Syntax.v.k = "arr" /\ Syntax.v.a # <<>>

\* C11: a batch call on a non-empty JSON array of n elements returns n
\* results, and result i is what a single-object call returns for the text
\* of element i: same order, a bare number gives Invalid request in place.
C11_BatchIsElementwise ==
    (op \in BatchOps /\ IsBatch)
        => /\ Len(retv) = Len(Syntax.v.a)
           /\ \A i \in 1..Len(retv) :
                retv[i] = from_str(ToTokens(Syntax.v.a[i]))

\* a batch of three: a Request, a bare number in the middle, a Notification
C11_Witness ==
    /\ op \in BatchOps /\ IsBatch
    /\ Len(retv) = 3
    /\ retv[1].ok /\ retv[1].msg.kind = "Request"
    /\ Syntax.v.a[2] = PosInt(1) /\ IsInvalidRequest(retv[2])
    /\ retv[3].ok /\ retv[3].msg.kind = "Notification"

\* what one element of a batch is replaced by: a bare string, an object of
\* no shape, a Request of version 1.0, a Success
Replacements ==
    {Str("m"),
     Obj("foo" :> Str("boo")),
     Doc(Str("1.0"), Str("m"), Absent, PosInt(1), Absent, Absent),
     Doc(Str("2.0"), Absent, Absent, PosInt(1), PosInt(19), Absent)}

\* the batch of the input with element i replaced by x, as text
Replaced(i, x) == ToTokens(Arr([Syntax.v.a EXCEPT ![i] = x]))

\* C12: replacing element i of a batch by any other JSON value, be it
\* malformed or of another version, leaves the result of every other
\* element j # i as it was.
C12_ElementsAreIndependent ==
    (op \in BatchOps /\ IsBatch)
        => \A i \in 1..Len(Syntax.v.a) : \A x \in Replacements :
             LET other == from_str_vec(Replaced(i, x)) IN
             /\ Len(other) = Len(retv)
             /\ \A j \in 1..Len(retv) : j # i => other[j] = retv[j]

\* a batch of three whose middle element has version 1.0 and gives Err,
\* between a Request that is classified and a string that is not
C12_Witness ==
    /\ op \in BatchOps /\ IsBatch
    /\ Len(retv) = 3
    /\ retv[1].ok /\ retv[1].msg.kind = "Request"
    /\ ~retv[2].ok /\ retv[2].ver = "1.0"
    /\ IsInvalidRequest(retv[3])

\* the text quotes the code -32700, as a Parse error response received from
\* a peer does
QuotesParseErrorCode ==
    \E n \in 1..Len(input) :
        input[n].k = "lit" /\ input[n].neg /\ input[n].mag = Small(32700)

\* the results of the call that was made
Results ==
    IF op \in SingleOps THEN {ret[1]} ELSE {retv[i] : i \in 1..Len(retv)}

\* C13: for every from_* operation, single or batch, a syntactically valid
\* JSON input of any top-level kind never yields the Parse error
\* substitute (texts that themselves carry the code -32700 set aside).
C13_ValidJsonIsNeverParseError ==
    (op \in SingleOps \cup BatchOps /\ Syntax.ok /\ ~QuotesParseErrorCode)
        => \A r \in Results : ~IsParseError(r)

\* a constructed message has just been serialized, to text or to a Value
Serialized == op \in {"to_string", "to_value_built"}

\* the JSON object that came out
OnWire == IF op = "to_string" THEN from_str_Value(input).v ELSE wire[1]

\* the keys a message from constructor f is to be written with
KeysOfConstructor(f) ==
    CASE f = "request"                  -> {"jsonrpc", "method", "id"}
      [] f = "request_with_params"      -> {"jsonrpc", "method", "params", "id"}
      [] f = "notification"             -> {"jsonrpc", "method"}
      [] f = "notification_with_params" -> {"jsonrpc", "method", "params"}
      [] f = "success"                  -> {"jsonrpc", "result", "id"}
      [] f = "error"                    -> {"jsonrpc", "error", "id"}

\* C14: a constructed message serializes to an object with exactly the keys
\* of its kind: params iff built with params, never an id on a
\* Notification, the error record with code and message and with data iff
\* data is present, and an absent Id written as "id": null, not left out.
C14_SerializedKeys ==
    Serialized
        => /\ IsObject(OnWire)
           /\ DOMAIN OnWire.o = KeysOfConstructor(call.f)
           /\ call.f = "error"
                => /\ IsObject(OnWire.o["error"])
                   /\ DOMAIN OnWire.o["error"].o
                        = {"code", "message"}
                            \cup (IF err[1].data.some THEN {"data"} ELSE {})
           /\ (call.f # "notification" /\ call.f # "notification_with_params"
                 /\ call.id = Unit)
                => OnWire.o["id"] = Null

\* an Error built with data and the absent Id, written as text
C14_Witness ==
    /\ op = "to_string"
    /\ call.f = "error" /\ call.id = Unit
    /\ err[1].data.some
    /\ DOMAIN OnWire.o["error"].o = {"code", "message", "data"}
    /\ OnWire.o["id"] = Null

\* a single-object call has read the text a constructed message was
\* written as
ReadBack == op \in SingleOps /\ rpc # <<>>

\* C15: for every Id (an i64, zero and negatives included, a string, or
\* absent) and every kind that carries one, parsing the serialization of a
\* message built with that Id gives a message whose get_id() is that Id,
\* variant included: the string "1" does not come back as the number 1.
C15_IdRoundTrip ==
    (ReadBack /\ rpc[1].kind \in {"Request", "Success", "Error"})
        => /\ Single.ok
           /\ get_id(Single.msg) = Some(Into_Id(call.id))

\* a message built with the string id "1" has been read back
C15_Witness ==
    /\ ReadBack
    /\ call.id = Arg_String("1")
    /\ Single.ok
    /\ get_id(Single.msg) = Some(IdStr("1"))

\* C16: for every message m the six constructors build (any Id, any params
\* the constructor takes, a scalar JSON value included, any RpcError with or
\* without data), from_str(to_string(m)) = Ok(m).
C16_RoundTrip == ReadBack => Single = Ok(rpc[1])

\* the document matched one of the four records (the result is no
\* substitute) and the message a single-object call returned for it has
\* been serialized again
Reserialized == op = "to_value_parsed" /\ from_value(Syntax.v).ok

\* C17: for every JSON document that classifies as a message with jsonrpc
\* "2.0", serializing the classified message gives a JSON value equal to
\* the document: no key added, dropped or changed.
C17_ReserializedIsDocument == Reserialized => wire[1] = Syntax.v

\* the keys a message of the kind holds, params being optional
KeysOfKind(kind, v) ==
    CASE kind = "Request" ->
           {"jsonrpc", "method", "id"} \cup ({"params"} \cap DOMAIN v.o)
      [] kind = "Notification" ->
           {"jsonrpc", "method"} \cup ({"params"} \cap DOMAIN v.o)
      [] kind = "Success" -> {"jsonrpc", "result", "id"}
      [] kind = "Error"   -> {"jsonrpc", "error", "id"}

\* the document is an object of exactly the keys of the kind it classified
\* as, with no null for params or data, and an error record that is an
\* object of code, message and possibly data
ExactDocument(v, kind) ==
    /\ IsObject(v)
    /\ DOMAIN v.o = KeysOfKind(kind, v)
    /\ Has(v, "params") => v.o["params"] # Null
    /\ kind = "Error"
         => /\ IsObject(v.o["error"])
            /\ DOMAIN v.o["error"].o \subseteq {"code", "message", "data"}
            /\ Has(v.o["error"], "data") => v.o["error"].o["data"] # Null

\* C17, amended: when the document is an object holding exactly the keys
\* of the kind it classifies as (params and data not null, the error
\* record an object of code, message and possibly data), serializing the
\* classified message gives a JSON value equal to the document.
C17_ReserializedIsExactDocument ==
    (Reserialized /\ ExactDocument(Syntax.v, Single.msg.kind))
        => wire[1] = Syntax.v

\* an Error response with data, received as text, classified, serialized
C17_Witness ==
    /\ Reserialized /\ call = NoCall
    /\ ExactDocument(Syntax.v, Single.msg.kind)
    /\ Single.msg.kind = "Error"
    /\ Has(Syntax.v.o["error"], "data")
    /\ wire[1] = Syntax.v

\* a message has been built with params given as a serde_json Value
BuiltWithValue ==
    /\ call.f \in {"request_with_params", "notification_with_params"}
    /\ call.params.ty = "Value"

\* C18: Params::from(Value) gives the list variant with the same elements
\* for an array, the map variant with the same entries for an object, and
\* the none variant for anything else; so a message built with a scalar
\* reports get_params() = Some(Params::None), which is Params::from(null).
C18_ParamsFromValue ==
    BuiltWithValue
        => LET v == call.params.v
               p == get_params(rpc[1])
           IN  /\ p.some
               /\ v.k = "arr" => (p.x.t = "Array" /\ p.x.a = v.a)
               /\ v.k = "obj" => (p.x.t = "Map" /\ p.x.o = v.o)
               /\ v.k \notin {"arr", "obj"}
                    => (p.x.t = "None" /\ p = Some(Params_from_Value(Null)))

\* a Request built with the scalar true for params
C18_Witness ==
    /\ op = "JsonRpc"
    /\ call.f = "request_with_params"
    /\ call.params = Arg_Value(Bool(TRUE))
    /\ get_params(rpc[1]) = Some(ParamsNone)

\* the orders the keys of a map can be written or inserted in
Orders(o) ==
    {q \in SeqsUpTo(DOMAIN o, Cardinality(DOMAIN o)) :
        Len(q) = Cardinality(DOMAIN o) /\ {q[n] : n \in 1..Len(q)} = DOMAIN o}

\* the list the other way round
Reverse(a) == [n \in 1..Len(a) |-> a[Len(a) + 1 - n]]

RECURSIVE InsertedIn(_, _)
\* the map o built by inserting its entries in the order ord
InsertedIn(ord, o) ==
    IF ord = <<>> THEN EmptyMap
    ELSE LET n == Len(ord) IN
         Insert(InsertedIn(SubSeq(ord, 1, n - 1), o), ord[n], o[ord[n]])

\* the text of the Request document v with params written as given
RequestText(v, params) ==
    StructTokens(<<F("jsonrpc", v.o["jsonrpc"]), F("method", v.o["method"]),
                   params, F("id", v.o["id"])>>)

\* a Request has been read from a text that holds params
ParsedRequestWithParams ==
    /\ op \in SingleOps /\ Syntax.ok /\ IsObject(Syntax.v)
    /\ Single.ok /\ Single.msg.kind = "Request"
    /\ Has(Syntax.v, "params")

\* a Request has been built with params
BuiltRequestWithParams == op = "JsonRpc" /\ call.f = "request_with_params"

\* C19: two Requests with the same id and method are equal when their map
\* params hold the same entries, whatever the order of the keys in the
\* text or of the inserts, and unequal when their list params hold the
\* same elements in another order; for parsed and for built Requests.
C19_ParamsEquality ==
    /\ ParsedRequestWithParams
         => LET p == Syntax.v.o["params"] IN
            /\ p.k = "obj"
                 => \A ord \in Orders(p.o) :
                      from_str(RequestText(Syntax.v,
                          FS("params", [n \in 1..Len(ord) |->
                                           F(ord[n], p.o[ord[n]])])))
                        = Single
            /\ (p.k = "arr" /\ Reverse(p.a) # p.a)
                 => from_str(RequestText(Syntax.v,
                                 F("params", Arr(Reverse(p.a)))))
                      # Single
    /\ BuiltRequestWithParams
         => /\ call.params.ty = "Map"
                 => \A ord \in Orders(call.params.o) :
                      JsonRpc_request_with_params(call.id, call.method,
                          Arg_Map(InsertedIn(ord, call.params.o)))
                        = rpc[1]
            /\ (call.params.ty = "Vec" /\ Reverse(call.params.a) # call.params.a)
                 => JsonRpc_request_with_params(call.id, call.method,
                        Arg_Vec(Reverse(call.params.a)))
                      # rpc[1]

\* the Request whose params were written as "b" then "a" has been read; it
\* is the Request built from the map with "a" and "b"
C19_Witness ==
    /\ ParsedRequestWithParams
    /\ call = NoCall
    /\ input[13] = Str("b") /\ input[17] = Str("a")
    /\ Single = Ok(JsonRpc_request_with_params(Arg_i64(I64(3)), "m",
                                               Arg_Map(Map_ab)))

\* the code and message the JSON-RPC specification reserves
Reserved(f) ==
    CASE f = "parse_error"      -> <<-32700, "Parse error">>
      [] f = "invalid_request"  -> <<-32600, "Invalid request">>
      [] f = "method_not_found" -> <<-32601, "Method not found">>
      [] f = "invalid_params"   -> <<-32602, "Invalid params">>
      [] f = "internal_error"   -> <<-32603, "Internal error">>

\* C20: the reserved-error constructors of RpcError give fixed records
\* without data: parse_error (-32700, "Parse error"), invalid_request
\* (-32600, "Invalid request"), method_not_found (-32601, "Method not
\* found"), invalid_params (-32602, "Invalid params"), internal_error
\* (-32603, "Internal error"); server_error(n) gives (n, "Server error", no
\* data) for every i64 n, in or out of the reserved range; custom(c, msg)
\* gives (c, msg, no data).
C20_RpcErrorConstructors ==
    op = "RpcError"
        => /\ err[1].data = None
           /\ call.f = "server_error"
                => (err[1].code = call.code /\ err[1].message = "Server error")
           /\ call.f = "custom"
                => (err[1].code = call.code /\ err[1].message = call.msg)
           /\ call.f \notin {"server_error", "custom"}
                => /\ err[1].code = I64(Reserved(call.f)[1])
                   /\ err[1].message = Reserved(call.f)[2]

\* server_error called with 0, a code outside -32099..-32000
C20_Witness ==
    /\ op = "RpcError"
    /\ call.f = "server_error" /\ call.code = I64(0)
    /\ err[1] = [code |-> I64(0), message |-> "Server error", data |-> None]

\* C21: with_data(v) returns a record whose data is exactly v, replacing
\* data attached before and clearing it when v is None, with code and
\* message as they were; a clone taken before the call keeps its data.
C21_WithData ==
    [][op' = "with_data"
         => /\ err'[1].data = call'.data
            /\ err'[1].code = err[1].code
            /\ err'[1].message = err[1].message
            /\ Tail(err') = Tail(err)]_vars

\* data 7 was attached and a clone taken, then the data was cleared: the
\* clone still holds 7
C21_Witness ==
    /\ op = "with_data"
    /\ call.data = None
    /\ Len(err) = 2
    /\ err[1].data = None
    /\ err[2].data = Some(PosInt(7))

\* how many of the four is_* predicates hold of m
KindsOf(m) ==
    (IF is_request(m) THEN 1 ELSE 0) + (IF is_notification(m) THEN 1 ELSE 0)
      + (IF is_success(m) THEN 1 ELSE 0) + (IF is_error(m) THEN 1 ELSE 0)

\* the accessors of m are present exactly where the kind carries the field
PresentByKind(m) ==
    /\ KindsOf(m) = 1
    /\ get_id(m).some <=> (is_request(m) \/ is_success(m) \/ is_error(m))
    /\ get_method(m).some <=> (is_request(m) \/ is_notification(m))
    /\ get_params(m).some => (is_request(m) \/ is_notification(m))
    /\ get_result(m).some <=> is_success(m)
    /\ get_error(m).some <=> is_error(m)

\* C22: of every message exactly one of is_request, is_notification,
\* is_success, is_error holds; get_id is present exactly for Request,
\* Success and Error, get_method exactly for Request and Notification,
\* get_params only for Request and Notification, get_result exactly for
\* Success, get_error exactly for Error; and each present value is the one
\* the message was built with.
C22_Accessors ==
    /\ (op \in SingleOps /\ Single.ok) => PresentByKind(Single.msg)
    /\ op = "JsonRpc"
         => LET m == rpc[1]
                f == call.f
            IN  /\ PresentByKind(m)
                /\ is_request(m) <=> f \in {"request", "request_with_params"}
                /\ is_notification(m)
                     <=> f \in {"notification", "notification_with_params"}
                /\ is_success(m) <=> f = "success"
                /\ is_error(m) <=> f = "error"
                /\ get_id(m).some => get_id(m).x = Into_Id(call.id)
                /\ get_method(m).some => get_method(m).x = call.method
                /\ get_params(m).some <=>
                     f \in {"request_with_params", "notification_with_params"}
                /\ get_params(m).some
                     => get_params(m).x = Into_Params(call.params)
                /\ get_result(m).some => get_result(m).x = call.result
                /\ get_error(m).some => get_error(m).x = err[1]

\* a Request built with the absent Id: get_id is present and holds Id::None
C22_Witness ==
    /\ op = "JsonRpc"
    /\ call.f = "request" /\ call.id = Unit
    /\ get_id(rpc[1]) = Some(IdNone)
    /\ get_method(rpc[1]) = Some(call.method)
    /\ ~get_result(rpc[1]).some

\* C23: every message a constructor built, and every Ok result of a from_*
\* operation, each Ok slot of a batch and each generated error object
\* included, carries the version "2.0".
C23_VersionIsTwoPointZero ==
    /\ rpc # <<>> => get_version(rpc[1]) = "2.0"
    /\ (ret # <<>> /\ ret[1].ok) => get_version(ret[1].msg) = "2.0"
    /\ \A i \in 1..Len(retv) :
         retv[i].ok => get_version(retv[i].msg) = "2.0"

\* a batch of three: a 1.0 Request that gives Err between a Request and a
\* bare number, whose Ok results both carry "2.0"
C23_Witness ==
    /\ op \in BatchOps /\ Len(retv) = 3
    /\ retv[1].ok /\ retv[1].msg.kind = "Request"
    /\ get_version(retv[1].msg) = "2.0"
    /\ ~retv[2].ok
    /\ IsInvalidRequest(retv[3]) /\ get_version(retv[3].msg) = "2.0"
    /\ Syntax.v.a[3] = PosInt(1)

\* the object v without the key
Without(v, key) == Obj([x \in DOMAIN v.o \ {key} |-> v.o[x]])

\* the Error document v without the data of its error record
WithoutData(v) ==
    Obj([v.o EXCEPT !["error"] = Without(v.o["error"], "data")])

\* a single-object call has classified an object as a message
ClassifiedObject ==
    /\ op \in SingleOps /\ Syntax.ok /\ IsObject(Syntax.v)
    /\ from_value(Syntax.v).ok /\ Single.ok

ExtraKeys(kind) ==
    CASE kind = "Request"      -> {"foo", "result", "error"}
      [] kind = "Notification" -> {"foo", "result", "error"}
      [] kind = "Success"      -> {"foo", "error"}
      [] kind = "Error"        -> {"foo"}

\* what an added key may hold
ExtraVals ==
    {Null, PosInt(1), Str("x"), Arr(<<PosInt(1)>>),
     ErrObj(PosInt(1), Str("x"), Absent)}

\* C25: keys outside the matched shape are ignored: an object that
\* classifies as kind K still gives the same message when a further key is
\* added that is no key of a shape tried before K, and the added key is
\* not there when that message is serialized again.
C25_ExtraKeysAreIgnored ==
    ClassifiedObject
        => \A key \in ExtraKeys(Single.msg.kind) \ DOMAIN Syntax.v.o :
             \A x \in ExtraVals :
               LET more == from_str(ToTokens(Obj(Insert(Syntax.v.o, key, x))))
               IN  /\ more = Single
                   /\ key \notin DOMAIN to_value(more.msg).o

\* a Request document that also holds a result key was classified as a
\* Request, and the result key is gone from what it serializes to
C25_Witness ==
    /\ ClassifiedObject
    /\ Single.msg.kind = "Request"
    /\ Has(Syntax.v, "result")
    /\ "result" \notin DOMAIN to_value(Single.msg).o
    /\ Single = from_str(ToTokens(Without(Syntax.v, "result")))

\* an object with jsonrpc "2.0", a valid id and no method that holds both a
\* result key and an error key
ResultAndError(v) ==
    /\ IsObject(v)
    /\ Has(v, "jsonrpc") /\ v.o["jsonrpc"] = Str("2.0")
    /\ ~Has(v, "method")
    /\ Has(v, "id") /\ ValidId(v.o["id"])
    /\ Has(v, "result") /\ Has(v, "error")

\* C26: an object with jsonrpc "2.0", a valid id and no method that holds
\* both result and error classifies as Success with that result; the error
\* key is dropped, be it a well-formed error record or not.
C26_ResultBeforeError ==
    (op \in SingleOps /\ Syntax.ok /\ ResultAndError(Syntax.v))
        => /\ Single.ok
           /\ is_success(Single.msg)
           /\ get_result(Single.msg) = Some(Syntax.v.o["result"])
           /\ "error" \notin DOMAIN to_value(Single.msg).o

\* result 19 next to a well-formed error record: Success with 19
C26_Witness ==
    /\ op \in SingleOps /\ Syntax.ok /\ ResultAndError(Syntax.v)
    /\ ValidErrorRecord(Syntax.v.o["error"])
    /\ Single.ok /\ is_success(Single.msg)
    /\ get_result(Single.msg) = Some(PosInt(19))

\* a Success or Error document whose id is a number that is no i64
ResponseWithIdOutOfRange(v) ==
    /\ IsObject(v)
    /\ ~Has(v, "method")
    /\ Has(v, "result") \/ Has(v, "error")
    /\ Has(v, "id") /\ v.o["id"].k = "num" /\ ~IsI64(v.o["id"])

\* C27: a numeric id is taken only when it is an integer of the signed
\* 64-bit range: a Success or Error document whose id has a fraction, or
\* is above 2^63-1 or below -2^63, gives the Invalid request object with
\* absent id, never a message with a truncated, wrapped or rounded id.
C27_IdOutOfRangeIsInvalidRequest ==
    (op \in SingleOps /\ Syntax.ok /\ ResponseWithIdOutOfRange(Syntax.v))
        => IsInvalidRequest(Single)

\* a Success document with jsonrpc "2.0" and the id 2^63
C27_Witness ==
    /\ op \in SingleOps /\ Syntax.ok /\ ResponseWithIdOutOfRange(Syntax.v)
    /\ Has(Syntax.v, "jsonrpc") /\ Syntax.v.o["jsonrpc"] = Str("2.0")
    /\ Syntax.v.o["id"] = Above_I64_MAX
    /\ Has(Syntax.v, "result") /\ ~Has(Syntax.v, "error")
    /\ IsInvalidRequest(Single)

\* C28: the structural match comes before the version check: valid JSON
\* that matches no shape, whatever its jsonrpc value and also when jsonrpc
\* is present but no string, gives the Invalid request object, and the
\* version mismatch Err arises only when a shape matched and jsonrpc is a
\* string other than "2.0".
C28_StructureBeforeVersion ==
    (op \in SingleOps /\ Syntax.ok) =>
        /\ ~MatchesShape(Syntax.v) => IsInvalidRequest(Single)
        /\ ~Single.ok => /\ MatchesShape(Syntax.v)
                         /\ Syntax.v.o["jsonrpc"].s # "2.0"
                         /\ Single.ver = Syntax.v.o["jsonrpc"].s

\* the text of a peer's error response with a null id and no data
GenuineErrorText(code, message) ==
    ToTokens(Doc(Str("2.0"), Absent, Absent, Null, Absent,
                 ErrObj(code, Str(message), Absent)))

\* the classifier answered with an object of its own making
Generated == op \in SingleOps /\ (~Syntax.ok \/ ~from_value(Syntax.v).ok)

\* C29: an error object the classifier generates equals the classification
\* of a peer's genuine error response: malformed text gives the value that
\* {"jsonrpc":"2.0","error":{"code":-32700,"message":"Parse error"},
\* "id":null} gives, and valid JSON without a shape the value that the
\* same document with -32600 "Invalid request" gives.
C29_GeneratedEqualsGenuine ==
    Generated =>
        Single = from_str(GenuineErrorText(
                     IF Syntax.ok THEN NegInt(32600) ELSE NegInt(32700),
                     IF Syntax.ok THEN "Invalid request" ELSE "Parse error"))

\* a cut-off text was answered like the genuine Parse error response, and
\* that response is itself among the texts classified
C29_Witness ==
    /\ Generated /\ ~Syntax.ok /\ input # <<>>
    /\ from_str(GenuineErrorText(NegInt(32700), "Parse error")).ok
    /\ Single = from_str(GenuineErrorText(NegInt(32700), "Parse error"))
    /\ is_error(Single.msg)

\* what a successful classification is written back as
Rewritten == to_string(Single.msg)

\* C30: the outcome of a classification is a fixpoint of serializing and
\* classifying again: when from_str gives Ok(m), a classified message or
\* an error object of its own making, from_str(to_string(m)) gives Ok(m);
\* in particular m holds neither Some(Params::None) nor data Some(null).
C30_ClassificationIsFixpoint ==
    (op \in SingleOps /\ Single.ok) =>
        /\ from_str(Rewritten) = Single
        /\ Single.msg.kind \in {"Request", "Notification"}
               => Single.msg.params # Some(ParamsNone)
        /\ Single.msg.kind = "Error" => Single.msg.error.data # Some(Null)

\* a Request read from a document with "params": null and "id": null holds
\* no params, is written back without the params key and reads back equal
C30_Witness ==
    /\ op \in SingleOps /\ Syntax.ok /\ IsObject(Syntax.v)
    /\ Has(Syntax.v, "params") /\ Syntax.v.o["params"] = Null
    /\ Has(Syntax.v, "id") /\ Syntax.v.o["id"] = Null
    /\ Single.ok /\ is_request(Single.msg)
    /\ Single.msg.params = None
    /\ from_str_Value(Rewritten).ok
    /\ ~Has(from_str_Value(Rewritten).v, "params")
    /\ from_str(Rewritten) = Single

====
